---- MODULE Spec2Model ----
(***************************************************************************)
(* Finger Counting Fun (src/script.js): the round engine of a counting     *)
(* quiz.  A round shows a number 1..10, offers four options and runs a     *)
(* 15 second countdown; an answer or the timeout resolves the round.       *)
(*                                                                         *)
(* The browser is single threaded: every handler (an option click, the     *)
(* next button, an interval callback) runs to completion, so each handler  *)
(* is one action.  Math.random() is an input: a handler that calls it      *)
(* takes the sequence of values it will draw.                              *)
(***************************************************************************)
EXTENDS Integers, Sequences, FiniteSets, TLC

VARIABLES
    currentNumber,  \* let currentNumber          (script.js:26)
    score,          \* let score                  (script.js:27)
    streak,         \* let streak                 (script.js:28)
    answered,       \* let answered               (script.js:29)
    timerInterval,  \* let timerInterval, a handle or NULL (script.js:30)
    timeLeft,       \* let timeLeft               (script.js:31)
    usedNumbers,    \* let usedNumbers, a Set     (script.js:33)
    options,        \* the numbers of the buttons in #options-container, in order
    hands,          \* the hands drawn in #hands-display, in order
    nextHidden,     \* whether #next-btn carries the class "hidden"
    intervals,      \* the interval handles the browser still fires
    handles,        \* how many handles setInterval has issued
    calls,          \* how many calls of generateNewNumber were followed
    last            \* the handler that ran last, with the state it started from

vars == <<currentNumber, score, streak, answered, timerInterval, timeLeft,
          usedNumbers, options, hands, nextHidden, intervals, handles, calls, last>>

-----------------------------------------------------------------------------
(* Program constants *)

TIMER_DURATION == 15

NumberCount == 10

WindowSize == 8

MaxAttempts == 20

OptionCount == 4

BasePoints == 10

StreakFactor == 5

TimeFactor == 2

NULL == 0

allNumbers == [i \in 1..NumberCount |-> i]

-----------------------------------------------------------------------------
(* Bounds of the model *)

\* Math.random() returns k/RandSteps for some k in 0..RandSteps-1.  Every use
\* in the round engine is Math.floor(Math.random() * n) with n <= 10, and with
\* RandSteps >= 10 each result 0..n-1 is the floor of some k/RandSteps * n.
RandSteps == 10

\* startNewRound is invoked at most MaxRounds times.
MaxRounds == 4

\* The short game starts at most MaxShortRounds rounds.
MaxShortRounds == 3

\* A game draws each round's random values from RoundValues sequences.
RoundValues == 2

\* generateNewNumber is invoked at most MaxCalls times in SpecNumber.
MaxCalls == 2

\* A host invokes startNewRound until MaxHostRounds rounds were started.
MaxHostRounds == 2

\* The runs of rejected samples of lengths 0..LoopUnroll are followed, besides
\* those that reach the pass at which generateNewNumber gives up.
LoopUnroll == 1

\* An interval that outlives its round is followed until timeLeft = -MaxOverrun.
MaxOverrun == 2

-----------------------------------------------------------------------------
(* Math.random *)

Rand == 0..(RandSteps - 1)

\* Math.floor(Math.random() * n), for the random value k/RandSteps
RandomInt(k, n) == (k * n) \div RandSteps

\* The sequences of len random values that take one value u for the first r
\* draws and one value v from then on, for the lengths r in runs.
StepStreams(len, runs) ==
    { [i \in 1..len |-> IF i <= r THEN u ELSE v] : u \in Rand, v \in Rand, r \in runs }

\* The sequences of len random values that are one value throughout, for
\* count values spread evenly over the range of Math.random().
ConstantStreams(len, count) ==
    { [i \in 1..len |-> (k * RandSteps) \div count] : k \in 0..(count - 1) }

-----------------------------------------------------------------------------
(* generateHandSVG and generateHandsForNumber (script.js:48-158) *)

\* fingerConfigs (script.js:53-59): thumb, index, middle, ring, pinky
fingerConfigs ==
    [f \in 1..5 |->
        CASE f = 1 -> <<FALSE, TRUE, FALSE, FALSE, FALSE>>
          [] f = 2 -> <<FALSE, TRUE, TRUE, FALSE, FALSE>>
          [] f = 3 -> <<FALSE, TRUE, TRUE, TRUE, FALSE>>
          [] f = 4 -> <<FALSE, TRUE, TRUE, TRUE, TRUE>>
          [] f = 5 -> <<TRUE, TRUE, TRUE, TRUE, TRUE>>]

\* generateHandSVG(fingers, isLeft): the fingers drawn as raised, and whether
\* the drawing is mirrored
generateHandSVG(fingers, isLeft) ==
    [config |-> IF fingers \in DOMAIN fingerConfigs THEN fingerConfigs[fingers]
                ELSE <<FALSE, FALSE, FALSE, FALSE, FALSE>>,
     isLeft |-> isLeft]

\* generateHandsForNumber that opens the second hand at 5
generateHandsForNumberSplitsFive(num) ==
    IF num < 5
    THEN <<generateHandSVG(num, FALSE)>>
    ELSE <<generateHandSVG(5, TRUE), generateHandSVG(num - 5, FALSE)>>

\* generateHandsForNumber(num): the children appended to #hands-display
generateHandsForNumber(num) ==
    IF num <= 5
    THEN <<generateHandSVG(num, FALSE)>>
    ELSE LET leftFingers  == 5
             rightFingers == num - 5
         IN  <<generateHandSVG(leftFingers, TRUE), generateHandSVG(rightFingers, FALSE)>>

-----------------------------------------------------------------------------
(* generateOptions (script.js:169-195) *)

Swap(arr, a, b) == [arr EXCEPT ![a] = arr[b], ![b] = arr[a]]

\* for (let i = arr.length - 1; i > 0; i--) { j = floor(random * (i + 1)); swap }
\* i is the 0-based index of the code; the pass takes the draw rnd[pos].
RECURSIVE FisherYates(_, _, _, _)
FisherYates(arr, i, rnd, pos) ==
    IF i <= 0 THEN arr
    ELSE LET j == RandomInt(rnd[pos], i + 1)
         IN  FisherYates(Swap(arr, i + 1, j + 1), i - 1, rnd, pos + 1)

\* The shuffle of arr that takes its draws from rnd[pos] on
Shuffle(arr, rnd, pos) == FisherYates(arr, Len(arr) - 1, rnd, pos)

InSeq(x, s) == \E k \in 1..Len(s) : s[k] = x

\* Set.prototype.add on a Set kept in insertion order
SetAdd(s, x) == IF InSeq(x, s) THEN s ELSE Append(s, x)

\* AddWrong that stops one element early
RECURSIVE AddWrongOneFewer(_, _, _)
AddWrongOneFewer(opts, available, i) ==
    IF i < Len(available) /\ Len(opts) < OptionCount - 1
    THEN AddWrongOneFewer(SetAdd(opts, available[i + 1]), available, i + 1)
    ELSE opts

\* for (let i = 0; i < availableNumbers.length && options.size < 4; i++) add
RECURSIVE AddWrong(_, _, _)
AddWrong(opts, available, i) ==
    IF i < Len(available) /\ Len(opts) < OptionCount
    THEN AddWrong(SetAdd(opts, available[i + 1]), available, i + 1)
    ELSE opts

\* The draws generateOptions makes: one per step of each of its two shuffles.
OptionDraws == (NumberCount - 2) + (OptionCount - 1)

\* generateOptions(correctNum), taking its draws from rnd[pos] on
generateOptions(correctNum, rnd, pos) ==
    LET availableNumbers == SelectSeq(allNumbers, LAMBDA n : n # correctNum)
        shuffled  == Shuffle(availableNumbers, rnd, pos)
        opts      == AddWrong(<<correctNum>>, shuffled, 0)
    IN  Shuffle(opts, rnd, pos + Len(availableNumbers) - 1)

-----------------------------------------------------------------------------
(* generateNewNumber (script.js:201-222) *)

\* Math.floor(Math.random() * 10) + 1
Sample(k) == RandomInt(k, NumberCount) + 1

\* SampleLoop that gives up one pass early
RECURSIVE SampleLoopGivesUpEarly(_, _, _)
SampleLoopGivesUpEarly(used, rnd, attempts) ==
    LET n         == attempts + 1
        newNumber == Sample(rnd[n])
    IN  IF n >= MaxAttempts
        THEN [number |-> Sample(rnd[n + 1]), used |-> {}, attempts |-> n]
        ELSE IF newNumber \in used
             THEN SampleLoopGivesUpEarly(used, rnd, n)
             ELSE [number |-> newNumber, used |-> used, attempts |-> n]

\* SampleLoop that never rejects a sample
SampleLoopAcceptsFirst(used, rnd, attempts) ==
    [number |-> Sample(rnd[attempts + 1]), used |-> used, attempts |-> attempts + 1]

\* SampleLoop that gives up without clearing the window
RECURSIVE SampleLoopKeepsWindow(_, _, _)
SampleLoopKeepsWindow(used, rnd, attempts) ==
    LET n         == attempts + 1
        newNumber == Sample(rnd[n])
    IN  IF n > MaxAttempts
        THEN [number |-> Sample(rnd[n + 1]), used |-> used, attempts |-> n]
        ELSE IF newNumber \in used
             THEN SampleLoopKeepsWindow(used, rnd, n)
             ELSE [number |-> newNumber, used |-> used, attempts |-> n]

\* One pass of the do-while loop: attempts is the count before the pass, and
\* the pass takes the draw rnd[attempts + 1].  The result is the number
\* returned, the set usedNumbers before the final add, and the passes made.
RECURSIVE SampleLoop(_, _, _)
SampleLoop(used, rnd, attempts) ==
    LET n         == attempts + 1
        newNumber == Sample(rnd[n])
    IN  IF n > MaxAttempts
        THEN [number |-> Sample(rnd[n + 1]), used |-> {}, attempts |-> n]
        ELSE IF newNumber \in used
             THEN SampleLoop(used, rnd, n)
             ELSE [number |-> newNumber, used |-> used, attempts |-> n]

\* The most draws one call makes: MaxAttempts + 1 passes and the fresh sample.
NumberDraws == MaxAttempts + 2

\* usedNumbers.add(newNumber); return newNumber (script.js:220-221): the
\* number returned, usedNumbers after the call, the passes of the loop and the
\* draws made.
AddAndReturn(r) ==
    [number   |-> r.number,
     used     |-> r.used \cup {r.number},
     attempts |-> r.attempts,
     draws    |-> IF r.attempts > MaxAttempts THEN r.attempts + 1 ELSE r.attempts]

\* ClearIfFull that lets the window grow past its size
ClearIfOverfull(used) == IF Cardinality(used) > WindowSize THEN {} ELSE used

\* if (usedNumbers.size >= 8) usedNumbers.clear() (script.js:203-205)
ClearIfFull(used) == IF Cardinality(used) >= WindowSize THEN {} ELSE used

generateNewNumber(used, rnd) ==
    LET start == ClearIfFull(used)
    IN  AddAndReturn(SampleLoop(start, rnd, 0))

-----------------------------------------------------------------------------
(* The handlers *)

\* What a handler leaves in last: its name, its argument, the points it
\* awarded, the passes generateNewNumber made, and the state it started from.
Event(op, sel, points, attempts) ==
    [op |-> op, sel |-> sel, points |-> points, attempts |-> attempts,
     score |-> score, streak |-> streak, timeLeft |-> timeLeft,
     answered |-> answered, currentNumber |-> currentNumber,
     usedNumbers |-> usedNumbers, timerInterval |-> timerInterval]

\* stopTimer that clears the interval and keeps the handle
stopTimerKeepsHandle(handle, live) ==
    [timerInterval |-> handle, intervals |-> live \ {handle}]

\* stopTimer (script.js:392-397): clearInterval on the handle in timerInterval
stopTimer(handle, live) ==
    IF handle # NULL
    THEN [timerInterval |-> NULL, intervals |-> live \ {handle}]
    ELSE [timerInterval |-> handle, intervals |-> live]

\* totalPoints with the streak counted after its increment
totalPointsAfterIncrement(t, s) == BasePoints + (TimeFactor * t) + ((s + 1) * StreakFactor)

\* totalPoints that takes the time bonus away
totalPointsTimePenalty(t, s) == BasePoints - (TimeFactor * t) + (s * StreakFactor)

\* The points of a correct answer (script.js:306-308)
totalPoints(t, s) == BasePoints + (TimeFactor * t) + (s * StreakFactor)

\* handleAnswer without the early return on an answered round
handleAnswerUnguarded(selectedNum) ==
    LET stopped   == stopTimer(timerInterval, intervals)
        isCorrect == selectedNum = currentNumber
        points    == IF isCorrect THEN totalPoints(timeLeft, streak) ELSE 0
    IN  /\ answered' = TRUE
        /\ timerInterval' = stopped.timerInterval
        /\ intervals' = stopped.intervals
        /\ score' = score + points
        /\ streak' = IF isCorrect THEN streak + 1 ELSE 0
        /\ nextHidden' = FALSE
        /\ last' = Event("handleAnswer", selectedNum, points, 0)
        /\ UNCHANGED <<currentNumber, timeLeft, usedNumbers, options, handles, calls, hands>>

\* handleAnswer that keeps the streak on a wrong answer
handleAnswerKeepsStreak(selectedNum) ==
    IF answered
    THEN /\ last' = Event("handleAnswer", selectedNum, 0, 0)
         /\ UNCHANGED <<currentNumber, score, streak, answered, timerInterval,
                        timeLeft, usedNumbers, options, nextHidden, intervals,
                        handles, calls, hands>>
    ELSE LET stopped   == stopTimer(timerInterval, intervals)
             isCorrect == selectedNum = currentNumber
             points    == IF isCorrect THEN totalPoints(timeLeft, streak) ELSE 0
         IN  /\ answered' = TRUE
             /\ timerInterval' = stopped.timerInterval
             /\ intervals' = stopped.intervals
             /\ score' = score + points
             /\ streak' = IF isCorrect THEN streak + 1 ELSE streak
             /\ nextHidden' = FALSE
             /\ last' = Event("handleAnswer", selectedNum, points, 0)
             /\ UNCHANGED <<currentNumber, timeLeft, usedNumbers, options, handles,
                            calls, hands>>

\* handleAnswer that leaves the countdown running
handleAnswerKeepsTimer(selectedNum) ==
    IF answered
    THEN /\ last' = Event("handleAnswer", selectedNum, 0, 0)
         /\ UNCHANGED <<currentNumber, score, streak, answered, timerInterval,
                        timeLeft, usedNumbers, options, nextHidden, intervals,
                        handles, calls, hands>>
    ELSE LET isCorrect == selectedNum = currentNumber
             points    == IF isCorrect THEN totalPoints(timeLeft, streak) ELSE 0
         IN  /\ answered' = TRUE
             /\ score' = score + points
             /\ streak' = IF isCorrect THEN streak + 1 ELSE 0
             /\ nextHidden' = FALSE
             /\ last' = Event("handleAnswer", selectedNum, points, 0)
             /\ UNCHANGED <<currentNumber, timeLeft, usedNumbers, options, handles,
                            calls, hands, timerInterval, intervals>>

\* handleAnswer (script.js:284-353)
handleAnswer(selectedNum) ==
    IF answered
    THEN /\ last' = Event("handleAnswer", selectedNum, 0, 0)
         /\ UNCHANGED <<currentNumber, score, streak, answered, timerInterval,
                        timeLeft, usedNumbers, options, nextHidden, intervals,
                        handles, calls, hands>>
    ELSE LET stopped   == stopTimer(timerInterval, intervals)
             isCorrect == selectedNum = currentNumber
             points    == IF isCorrect THEN totalPoints(timeLeft, streak) ELSE 0
         IN  /\ answered' = TRUE
             /\ timerInterval' = stopped.timerInterval
             /\ intervals' = stopped.intervals
             /\ score' = score + points
             /\ streak' = IF isCorrect THEN streak + 1 ELSE 0
             /\ nextHidden' = FALSE
             /\ last' = Event("handleAnswer", selectedNum, points, 0)
             /\ UNCHANGED <<currentNumber, timeLeft, usedNumbers, options, handles,
                            calls, hands>>

\* The callback that runs handleTimeUp whether or not the round is answered
intervalCallbackUnguarded(h) ==
    LET left    == timeLeft - 1
        expired == left <= 0
        stopped == IF expired THEN stopTimer(timerInterval, intervals)
                   ELSE [timerInterval |-> timerInterval, intervals |-> intervals]
        timeUp  == expired
    IN  /\ h \in intervals
        /\ timeLeft' = left
        /\ timerInterval' = stopped.timerInterval
        /\ intervals' = stopped.intervals
        /\ answered' = (answered \/ timeUp)
        /\ streak' = IF timeUp THEN 0 ELSE streak
        /\ nextHidden' = (nextHidden /\ ~timeUp)
        /\ last' = Event(IF timeUp THEN "handleTimeUp" ELSE "tick", h, 0, 0)
        /\ UNCHANGED <<currentNumber, score, usedNumbers, options, handles, calls, hands>>

\* The callback that lets the countdown pass 0 before it expires
intervalCallbackLate(h) ==
    LET left    == timeLeft - 1
        expired == left < 0
        stopped == IF expired THEN stopTimer(timerInterval, intervals)
                   ELSE [timerInterval |-> timerInterval, intervals |-> intervals]
        timeUp  == expired /\ ~answered
    IN  /\ h \in intervals
        /\ timeLeft' = left
        /\ timerInterval' = stopped.timerInterval
        /\ intervals' = stopped.intervals
        /\ answered' = (answered \/ timeUp)
        /\ streak' = IF timeUp THEN 0 ELSE streak
        /\ nextHidden' = (nextHidden /\ ~timeUp)
        /\ last' = Event(IF timeUp THEN "handleTimeUp" ELSE "tick", h, 0, 0)
        /\ UNCHANGED <<currentNumber, score, usedNumbers, options, handles, calls, hands>>

\* The callback that runs handleTimeUp and leaves the interval running
intervalCallbackKeepsTimer(h) ==
    LET left    == timeLeft - 1
        expired == left <= 0
        timeUp  == expired /\ ~answered
    IN  /\ h \in intervals
        /\ timeLeft' = left
        /\ answered' = (answered \/ timeUp)
        /\ streak' = IF timeUp THEN 0 ELSE streak
        /\ nextHidden' = (nextHidden /\ ~timeUp)
        /\ last' = Event(IF timeUp THEN "handleTimeUp" ELSE "tick", h, 0, 0)
        /\ UNCHANGED <<currentNumber, score, usedNumbers, options, handles, calls, hands,
                       timerInterval, intervals>>

\* The callback of setInterval (script.js:368-386), fired for the live handle h.
\* When timeLeft reaches 0 it stops the timer and, on an unanswered round,
\* runs handleTimeUp (script.js:402-433).
intervalCallback(h) ==
    LET left    == timeLeft - 1
        expired == left <= 0
        stopped == IF expired THEN stopTimer(timerInterval, intervals)
                   ELSE [timerInterval |-> timerInterval, intervals |-> intervals]
        timeUp  == expired /\ ~answered
    IN  /\ h \in intervals
        /\ timeLeft' = left
        /\ timerInterval' = stopped.timerInterval
        /\ intervals' = stopped.intervals
        /\ answered' = (answered \/ timeUp)
        /\ streak' = IF timeUp THEN 0 ELSE streak
        /\ nextHidden' = (nextHidden /\ ~timeUp)
        /\ last' = Event(IF timeUp THEN "handleTimeUp" ELSE "tick", h, 0, 0)
        /\ UNCHANGED <<currentNumber, score, usedNumbers, options, handles, calls, hands>>

\* startTimer that counts down from one second more
startTimerLong(live, issued) ==
    [timeLeft |-> TIMER_DURATION + 1, timerInterval |-> issued + 1,
     intervals |-> live \cup {issued + 1}, handles |-> issued + 1]

\* startTimer (script.js:362-387): setInterval issues a fresh handle
startTimer(live, issued) ==
    [timeLeft |-> TIMER_DURATION, timerInterval |-> issued + 1,
     intervals |-> live \cup {issued + 1}, handles |-> issued + 1]

\* startNewRound that also resets the streak
startNewRoundResetsStreak(rnd) ==
    \E g \in {generateNewNumber(usedNumbers, rnd)} :
        LET started == startTimer(intervals, handles)
        IN  /\ answered' = FALSE
            /\ currentNumber' = g.number
            /\ usedNumbers' = g.used
            /\ nextHidden' = TRUE
            /\ hands' = generateHandsForNumber(g.number)
            /\ options' = generateOptions(g.number, rnd, g.draws + 1)
            /\ timeLeft' = started.timeLeft
            /\ timerInterval' = started.timerInterval
            /\ intervals' = started.intervals
            /\ handles' = started.handles
            /\ calls' = calls + 1
            /\ last' = Event("startNewRound", 0, 0, g.attempts)
            /\ streak' = 0
            /\ UNCHANGED score

\* startNewRound that renders the options of the previous number
startNewRoundStaleOptions(rnd) ==
    \E g \in {generateNewNumber(usedNumbers, rnd)} :
        LET started == startTimer(intervals, handles)
        IN  /\ answered' = FALSE
            /\ currentNumber' = g.number
            /\ usedNumbers' = g.used
            /\ nextHidden' = TRUE
            /\ hands' = generateHandsForNumber(g.number)
            /\ options' = generateOptions(currentNumber, rnd, g.draws + 1)
            /\ timeLeft' = started.timeLeft
            /\ timerInterval' = started.timerInterval
            /\ intervals' = started.intervals
            /\ handles' = started.handles
            /\ calls' = calls + 1
            /\ last' = Event("startNewRound", 0, 0, g.attempts)
            /\ UNCHANGED <<score, streak>>

\* startNewRound that leaves #next-btn showing
startNewRoundShowsNext(rnd) ==
    \E g \in {generateNewNumber(usedNumbers, rnd)} :
        LET started == startTimer(intervals, handles)
        IN  /\ answered' = FALSE
            /\ currentNumber' = g.number
            /\ usedNumbers' = g.used
            /\ nextHidden' = FALSE
            /\ hands' = generateHandsForNumber(g.number)
            /\ options' = generateOptions(g.number, rnd, g.draws + 1)
            /\ timeLeft' = started.timeLeft
            /\ timerInterval' = started.timerInterval
            /\ intervals' = started.intervals
            /\ handles' = started.handles
            /\ calls' = calls + 1
            /\ last' = Event("startNewRound", 0, 0, g.attempts)
            /\ UNCHANGED <<score, streak>>

\* startNewRound (script.js:470-486), drawing the random values rnd
startNewRound(rnd) ==
    \E g \in {generateNewNumber(usedNumbers, rnd)} :
        LET started == startTimer(intervals, handles)
        IN  /\ answered' = FALSE
            /\ currentNumber' = g.number
            /\ usedNumbers' = g.used
            /\ nextHidden' = TRUE
            /\ hands' = generateHandsForNumber(g.number)
            /\ options' = generateOptions(g.number, rnd, g.draws + 1)
            /\ timeLeft' = started.timeLeft
            /\ timerInterval' = started.timerInterval
            /\ intervals' = started.intervals
            /\ handles' = started.handles
            /\ calls' = calls + 1
            /\ last' = Event("startNewRound", 0, 0, g.attempts)
            /\ UNCHANGED <<score, streak>>

-----------------------------------------------------------------------------
(* The game as the page drives it *)

\* The random values one startNewRound may draw
RoundStreams == ConstantStreams(NumberDraws + OptionDraws, RoundValues)

\* The module-level initialisers (script.js:26-33); #options-container is
\* empty and the markup decides whether #next-btn shows.
Init ==
    /\ currentNumber = 1
    /\ score = 0
    /\ streak = 0
    /\ answered = FALSE
    /\ timerInterval = NULL
    /\ timeLeft = TIMER_DURATION
    /\ usedNumbers = {}
    /\ options = <<>>
    /\ hands = <<>>
    /\ nextHidden \in BOOLEAN
    /\ intervals = {}
    /\ handles = 0
    /\ calls = 0
    /\ last = Event("load", 0, 0, 0)

\* initializeGame (script.js:537-591): registers the next button's listener
\* and starts the first round
InitializeGame ==
    /\ handles = 0
    /\ \E rnd \in RoundStreams : startNewRound(rnd)

\* A click on one of the option buttons (script.js:256)
OptionClick ==
    /\ handles > 0
    /\ \E k \in 1..Len(options) : handleAnswer(options[k])

\* A click on #next-btn while it shows (script.js:583-586)
NextClick ==
    /\ handles > 0
    /\ handles < MaxRounds
    /\ ~nextHidden
    /\ \E rnd \in RoundStreams : startNewRound(rnd)

\* The browser fires a live interval
IntervalFires ==
    /\ timeLeft > -MaxOverrun
    /\ \E h \in intervals : intervalCallback(h)

Next == InitializeGame \/ OptionClick \/ NextClick \/ IntervalFires

Spec == Init /\ [][Next]_vars

-----------------------------------------------------------------------------
(* The short game *)

\* A click on #next-btn while it shows (script.js:583-586), in the short game
NextClickShort ==
    /\ handles > 0
    /\ handles < MaxShortRounds
    /\ ~nextHidden
    /\ \E rnd \in RoundStreams : startNewRound(rnd)

NextShort == InitializeGame \/ OptionClick \/ NextClickShort \/ IntervalFires

\* The game as the page drives it, over MaxShortRounds rounds
SpecShort == Init /\ [][NextShort]_vars

-----------------------------------------------------------------------------
(* The countdown keeps firing *)

\* The game of a player who never clicks an option
NextTimeout == InitializeGame \/ NextClick \/ IntervalFires

\* setInterval fires a live interval once a second until it is cleared.
SpecLive == Init /\ [][NextTimeout]_vars /\ WF_vars(IntervalFires)

-----------------------------------------------------------------------------
(* The handlers as a host may invoke them *)

\* The integers a caller may pass to handleAnswer
AnswerInputs == 0..(NumberCount + 1)

\* startNewRound called whatever the state of the round
HostStartsRound ==
    /\ handles > 0
    /\ handles < MaxHostRounds
    /\ \E rnd \in RoundStreams : startNewRound(rnd)

\* handleAnswer called with any integer
HostAnswers ==
    /\ handles > 0
    /\ \E n \in AnswerInputs : handleAnswer(n)

NextHost == InitializeGame \/ HostAnswers \/ HostStartsRound \/ IntervalFires

SpecHost == Init /\ [][NextHost]_vars

-----------------------------------------------------------------------------
(* generateNewNumber on its own *)

\* The random values one call of generateNewNumber may draw
\* The first draws are rejected or not; the run of rejected draws ends
\* before, at or after the pass that gives up.
NumberStreams ==
    StepStreams(NumberDraws, (0..LoopUnroll) \cup ((MaxAttempts - 1)..NumberDraws))

\* The window after the numbers 1..k were drawn in that order, for each k up
\* to the size at which the window is cleared.
InitNumber ==
    \E k \in 0..WindowSize :
        /\ usedNumbers = 1..k
        /\ currentNumber = (IF k = 0 THEN 1 ELSE k)
        /\ calls = 0
        /\ score = 0
        /\ streak = 0
        /\ answered = FALSE
        /\ timerInterval = NULL
        /\ timeLeft = TIMER_DURATION
        /\ options = <<>>
        /\ hands = <<>>
        /\ nextHidden = TRUE
        /\ intervals = {}
        /\ handles = 0
        /\ last = [Event("load", 0, 0, 0) EXCEPT !.usedNumbers = {}]

\* currentNumber = generateNewNumber() (script.js:472)
CallGenerateNewNumber ==
    /\ calls < MaxCalls
    /\ \E rnd \in NumberStreams :
          \E g \in {generateNewNumber(usedNumbers, rnd)} :
              /\ currentNumber' = g.number
              /\ usedNumbers' = g.used
              /\ calls' = calls + 1
              /\ last' = Event("generateNewNumber", 0, 0, g.attempts)
    /\ UNCHANGED <<score, streak, answered, timerInterval, timeLeft, options,
                   nextHidden, intervals, handles, hands>>

NextNumber == CallGenerateNewNumber

SpecNumber == InitNumber /\ [][NextNumber]_vars

-----------------------------------------------------------------------------
(* generateOptions on its own *)

\* The random values one call of generateOptions may draw
OptionStreams == StepStreams(OptionDraws, 0..OptionDraws)

\* Any number may be the round's number.
InitOptions ==
    /\ currentNumber \in 1..NumberCount
    /\ usedNumbers = {currentNumber}
    /\ calls = 0
    /\ score = 0
    /\ streak = 0
    /\ answered = FALSE
    /\ timerInterval = NULL
    /\ timeLeft = TIMER_DURATION
    /\ options = <<>>
    /\ hands = <<>>
    /\ nextHidden = TRUE
    /\ intervals = {}
    /\ handles = 0
    /\ last = [Event("generateNewNumber", 0, 0, 1) EXCEPT !.usedNumbers = {}, !.currentNumber = 1]

\* const options = generateOptions(currentNumber) (script.js:483)
CallGenerateOptions ==
    /\ options = <<>>
    /\ \E rnd \in OptionStreams :
          /\ options' = generateOptions(currentNumber, rnd, 1)
          /\ last' = Event("generateOptions", currentNumber, 0, 0)
    /\ UNCHANGED <<currentNumber, score, streak, answered, timerInterval, timeLeft,
                   usedNumbers, nextHidden, intervals, handles, calls, hands>>

NextOptions == CallGenerateOptions

SpecOptions == InitOptions /\ [][NextOptions]_vars

-----------------------------------------------------------------------------
(* Scoring *)

\* The last handler resolved an unanswered round with the answer sel.
Answered(sel) == last.op = "handleAnswer" /\ ~last.answered /\ last.sel = sel

CorrectAnswer == Answered(last.currentNumber)

WrongAnswer ==
    last.op = "handleAnswer" /\ ~last.answered /\ last.sel # last.currentNumber

\* C1: a correct answer on an unanswered round, given with t seconds left and
\* a streak of s, adds exactly 10 + 2*t + 5*s to score and makes the streak
\* s + 1: 40 points for t = 15, s = 0; 55 for t = 15, s = 3; 40 for t = 10,
\* s = 2, where the streak becomes 3.
C1_CorrectAnswerPoints ==
    CorrectAnswer =>
        /\ score = last.score + 10 + (2 * last.timeLeft) + (5 * last.streak)
        /\ streak = last.streak + 1
        /\ last.points = score - last.score
        /\ (last.timeLeft = 15 /\ last.streak = 0) => (score - last.score = 40)
        /\ (last.timeLeft = 15 /\ last.streak = 3) => (score - last.score = 55)
        /\ (last.timeLeft = 10 /\ last.streak = 2) =>
               (score - last.score = 40 /\ streak = 3)

\* A fourth correct answer in a row, given at once
C1_Witness ==
    /\ CorrectAnswer
    /\ last.timeLeft = 15
    /\ last.streak = 3
    /\ score = last.score + 55
    /\ streak = 4

\* C2: a wrong answer and a timeout both set streak to 0 and leave score as
\* it was.
C2_MissResetsStreak ==
    (WrongAnswer \/ last.op = "handleTimeUp") =>
        /\ streak = 0
        /\ score = last.score
        /\ last.points = 0

\* A wrong answer that ends a streak of two
C2_Witness ==
    /\ WrongAnswer
    /\ last.streak = 2
    /\ streak = 0
    /\ score = last.score
    /\ score > 0

-----------------------------------------------------------------------------
(* Resolution *)

\* C3: a round is resolved at most once: a step that changes score or streak,
\* or that sets answered, starts on an unanswered round and leaves it
\* answered, and only the start of a round makes answered false again.
C3_ResolvedOnce ==
    [][ /\ (score' # score \/ streak' # streak \/ (answered' /\ ~answered))
            => (~answered /\ answered' /\ handles' = handles)
        /\ (answered /\ ~answered') => (handles' = handles + 1)
      ]_vars

\* An option is clicked right after the tick that timed the round out.
C3_Witness ==
    /\ last.op = "handleAnswer"
    /\ last.answered
    /\ last.sel = currentNumber
    /\ last.timeLeft = 0
    /\ last.timerInterval = NULL
    /\ answered
    /\ streak = 0
    /\ score = last.score

\* C4: on a resolved round every answer, tick and timeout leaves score,
\* streak, answered and currentNumber as they are, until a round is started.
C4_ResolvedIsStable ==
    [][ (answered /\ handles' = handles)
            => UNCHANGED <<score, streak, answered, currentNumber>> ]_vars

\* An interval reaches 0 on a round that was answered correctly before.
C4_Witness ==
    /\ last.op = "tick"
    /\ last.answered
    /\ timeLeft = 0
    /\ answered
    /\ streak = 1
    /\ score > 0

-----------------------------------------------------------------------------
(* The countdown *)

\* C5: after startNewRound, in whatever state it is invoked, at most one
\* countdown interval is live.
C5_SingleInterval == Cardinality(intervals) <= 1

\* C6: when no answer is given, the ticks bring timeLeft from 15 down to 0 one
\* by one; the tick that reaches 0 stops the interval and handleTimeUp sets
\* answered, so every unanswered round is resolved in the end.
C6_TimeoutResolves ==
    /\ ((handles > 0 /\ ~answered) ~>
            (answered /\ last.op = "handleTimeUp" /\ timeLeft = 0))
    /\ [](last.op = "handleTimeUp" =>
            /\ last.timeLeft = 1
            /\ timeLeft = 0
            /\ answered
            /\ timerInterval = NULL
            /\ intervals = {})
    /\ [][ timeLeft' # timeLeft =>
             (timeLeft' = timeLeft - 1 \/ (handles' = handles + 1 /\ timeLeft' = 15))
         ]_vars

\* The second round times out.
C6_Witness ==
    /\ last.op = "handleTimeUp"
    /\ handles = 2
    /\ timeLeft = 0
    /\ answered
    /\ intervals = {}

-----------------------------------------------------------------------------
(* The options *)

\* C7: generateOptions(correctNum) is a sequence of exactly 4 pairwise
\* distinct integers in 1..10, one of which is correctNum.
C7_FourDistinctOptions ==
    last.op = "generateOptions" =>
        /\ Len(options) = 4
        /\ \A a \in 1..Len(options) : options[a] \in 1..10
        /\ \A a, b \in 1..Len(options) : (a # b) => (options[a] # options[b])
        /\ \E a \in 1..Len(options) : options[a] = last.sel

\* The options of 10, with 10 shuffled to the last place
C7_Witness ==
    /\ last.op = "generateOptions"
    /\ last.sel = 10
    /\ Len(options) = 4
    /\ options[4] = 10
    /\ options[1] < options[2]

-----------------------------------------------------------------------------
(* Invalid input *)

\* C8: handleAnswer rejects an integer outside 1..10: the round stays
\* unresolved and streak and score stay as they are.
C8_OutOfRangeRejected ==
    (last.op = "handleAnswer" /\ ~last.answered /\ last.sel \notin 1..10) =>
        /\ ~answered
        /\ streak = last.streak
        /\ score = last.score

-----------------------------------------------------------------------------
(* The number of a round *)

\* The last step was a call of generateNewNumber.
NumberDrawn == last.op = "generateNewNumber"

\* C9: two consecutive values returned by generateNewNumber differ.
C9_NoImmediateRepeat ==
    (NumberDrawn /\ last.usedNumbers # {}) => (currentNumber # last.currentNumber)

-----------------------------------------------------------------------------
(* The window of recent numbers *)

\* The last call of generateNewNumber cleared usedNumbers: the window was full
\* on entry, or the loop gave up.
WindowCleared == Cardinality(last.usedNumbers) >= 8 \/ last.attempts > 20

\* C11: between two clears of usedNumbers the values returned are pairwise
\* distinct and usedNumbers is the set of them: a call that clears leaves the
\* window holding the value it returns, and any other call returns a value
\* that is not in the window and adds it.
C11_DistinctBetweenClears ==
    NumberDrawn =>
        /\ WindowCleared => usedNumbers = {currentNumber}
        /\ ~WindowCleared =>
              /\ currentNumber \notin last.usedNumbers
              /\ usedNumbers = last.usedNumbers \cup {currentNumber}
              /\ Cardinality(usedNumbers) = Cardinality(last.usedNumbers) + 1

\* The second of two calls in a row fills the window after one rejected sample.
C11_Witness ==
    /\ NumberDrawn
    /\ calls = 2
    /\ ~WindowCleared
    /\ last.attempts = 2
    /\ Cardinality(usedNumbers) = 8

\* C12: usedNumbers never holds more than 8 numbers, all of them in 1..10;
\* a call adds the number it returns, and it clears the window on entry
\* exactly when the window holds 8 numbers or more: then the first sample is
\* accepted, and a call that rejects a sample started from a smaller window.
C12_WindowBounded ==
    /\ Cardinality(usedNumbers) <= 8
    /\ usedNumbers \subseteq 1..10
    /\ NumberDrawn =>
          /\ currentNumber \in usedNumbers
          /\ (Cardinality(last.usedNumbers) >= 8) =>
                (last.attempts = 1 /\ usedNumbers = {currentNumber})
          /\ (last.attempts > 1) => (Cardinality(last.usedNumbers) < 8)
          /\ (Cardinality(last.usedNumbers) < 8 /\ last.attempts <= 20) =>
                (last.usedNumbers \subseteq usedNumbers)

\* A call on a full window returns a number the window held.
C12_Witness ==
    /\ NumberDrawn
    /\ Cardinality(last.usedNumbers) = 8
    /\ currentNumber \in last.usedNumbers
    /\ usedNumbers = {currentNumber}

-----------------------------------------------------------------------------
(* Score, streak and the course of a round *)

\* The last handler resolved the round without a correct answer.
Missed == WrongAnswer \/ last.op = "handleTimeUp"

\* C13: score never decreases, score and streak are never negative, and
\* streak changes only by +1 on a correct answer or by a reset to 0 on a
\* wrong answer or a timeout.
C13_ScoreStreakMonotone ==
    /\ score >= 0
    /\ streak >= 0
    /\ score >= last.score
    /\ streak # last.streak =>
          \/ CorrectAnswer /\ streak = last.streak + 1
          \/ Missed /\ streak = 0

\* A timeout resets a streak of 2 and keeps the score.
C13_Witness ==
    /\ last.op = "handleTimeUp"
    /\ last.streak = 2
    /\ streak = 0
    /\ score = last.score
    /\ score > 0

\* C14: streak counts the rounds resolved as correct since the last miss or
\* the start of the game: it is 0 before the first round, a correct answer
\* adds 1, a miss sets it to 0, and no other step (the start of a round
\* included, which keeps score as well) changes it.
C14_StreakCountsCorrectRun ==
    /\ handles = 0 => (streak = 0 /\ score = 0)
    /\ CorrectAnswer => streak = last.streak + 1
    /\ Missed => streak = 0
    /\ ~(CorrectAnswer \/ Missed) => streak = last.streak
    /\ last.op = "startNewRound" => (streak = last.streak /\ score = last.score)

\* The third round starts with the streak and score of two correct rounds.
C14_Witness ==
    /\ last.op = "startNewRound"
    /\ handles = 3
    /\ last.streak = 2
    /\ streak = 2
    /\ score = last.score
    /\ score > 0

\* C15: the countdown of a round starts at 15 and each tick takes exactly 1
\* off; an answer halts it at once, no interval is left running on a resolved
\* round, and timeLeft keeps its value until the next round starts.
C15_CountdownHaltsOnAnswer ==
    /\ last.op = "startNewRound" => timeLeft = TIMER_DURATION
    /\ last.op \in {"tick", "handleTimeUp"} => timeLeft = last.timeLeft - 1
    /\ last.op = "handleAnswer" =>
          /\ timeLeft = last.timeLeft
          /\ timerInterval = NULL
          /\ intervals = {}
    /\ answered => intervals = {}
    /\ (last.answered /\ last.op # "startNewRound") => timeLeft = last.timeLeft

\* A click on a round answered at 7 seconds finds the countdown still at 7.
C15_Witness ==
    /\ last.op = "handleAnswer"
    /\ last.answered
    /\ last.timeLeft = 7
    /\ timeLeft = 7
    /\ intervals = {}

\* The sequence s holds n distinct values.
Distinct(s, n) == Len(s) = n /\ Cardinality({s[k] : k \in 1..Len(s)}) = n

\* C16: after startNewRound the round is unanswered, timeLeft is 15, the
\* interval of timerInterval is running, currentNumber is a number in 1..10
\* that generateNewNumber added to usedNumbers, and the options are the 4
\* distinct values of generateOptions(currentNumber), currentNumber among them.
C16_RoundReinitialized ==
    last.op = "startNewRound" =>
        /\ ~answered
        /\ timeLeft = TIMER_DURATION
        /\ timerInterval # NULL
        /\ timerInterval \in intervals
        /\ currentNumber \in 1..NumberCount
        /\ currentNumber \in usedNumbers
        /\ Distinct(options, OptionCount)
        /\ InSeq(currentNumber, options)
        /\ \A k \in 1..Len(options) : options[k] \in 1..NumberCount
        /\ \E rnd \in RoundStreams : options = generateOptions(currentNumber, rnd, 1)

\* The second round starts on an answered round with another number.
C16_Witness ==
    /\ last.op = "startNewRound"
    /\ handles = 2
    /\ last.answered
    /\ last.timeLeft \in 1..(TIMER_DURATION - 1)
    /\ timeLeft = TIMER_DURATION
    /\ ~answered
    /\ currentNumber # last.currentNumber

\* C17: a round after the first starts only on a resolved round: #next-btn
\* is hidden from the start of a round until handleAnswer or handleTimeUp
\* resolves it.
C17_RoundStartsAfterResolution ==
    /\ (last.op = "startNewRound" /\ handles > 1) => last.answered
    /\ handles > 0 => (nextHidden <=> ~answered)

\* The second round starts after the first one timed out.
C17_Witness ==
    /\ last.op = "startNewRound"
    /\ handles = 2
    /\ last.answered
    /\ last.timeLeft = 0
    /\ nextHidden

-----------------------------------------------------------------------------
(* stopTimer on its own *)

\* stopTimer (script.js:392-397) called in any state of the round
HostStopsTimer ==
    \E stopped \in {stopTimer(timerInterval, intervals)} :
        /\ timerInterval' = stopped.timerInterval
        /\ intervals' = stopped.intervals
        /\ last' = Event("stopTimer", 0, 0, 0)
        /\ UNCHANGED <<currentNumber, score, streak, answered, timeLeft,
                       usedNumbers, options, nextHidden, handles, calls, hands>>

NextTimer == InitializeGame \/ OptionClick \/ IntervalFires \/ HostStopsTimer

\* One round of the game, with stopTimer called at any moment
SpecTimer == Init /\ [][NextTimer]_vars

\* C18: stopTimer is idempotent: it leaves timerInterval null and no interval
\* running, it changes nothing when timerInterval is already null, and so a
\* second call in a row changes nothing; it never touches the rest of the game.
C18_StopTimerIdempotent ==
    [][last'.op = "stopTimer" =>
          /\ timerInterval' = NULL
          /\ intervals' = {}
          /\ timerInterval = NULL => UNCHANGED <<timerInterval, intervals>>
          /\ last.op = "stopTimer" => UNCHANGED <<timerInterval, intervals>>
          /\ UNCHANGED <<currentNumber, score, streak, answered, timeLeft,
                         usedNumbers, options, nextHidden, handles, calls,
                         hands>>]_vars

\* stopTimer found the timer already stopped by a call in the running round.
C18_Witness ==
    /\ last.op = "stopTimer"
    /\ last.timerInterval = NULL
    /\ handles = 1
    /\ ~answered
    /\ timeLeft = 9
    /\ timerInterval = NULL
    /\ intervals = {}

-----------------------------------------------------------------------------
(* The hands of a round on their own *)

\* generateHandsForNumber(currentNumber) as startNewRound calls it
\* (script.js:482)
CallGenerateHands ==
    /\ hands = <<>>
    /\ hands' = generateHandsForNumber(currentNumber)
    /\ last' = Event("generateHandsForNumber", currentNumber, 0, 0)
    /\ UNCHANGED <<currentNumber, score, streak, answered, timerInterval,
                   timeLeft, usedNumbers, options, nextHidden, intervals,
                   handles, calls>>

NextRender == CallGenerateHands \/ CallGenerateOptions

\* The rendering of a round: its hands and its options, in either order
SpecRender == InitOptions /\ [][NextRender]_vars

\* The fingers a hand shows raised (thumb, index, middle, ring, pinky)
Raised(hand) == Cardinality({i \in 1..Len(hand.config) : hand.config[i]})

\* C19: generateHandsForNumber(num) shows raised fingers that total num: one
\* hand with num raised fingers for num <= 5, and for num >= 6 two hands, 5
\* raised and then num - 5 raised; generateHandSVG(f) raises exactly f
\* fingers for f in 1..5.
C19_HandsShowNumber ==
    /\ \A f \in 1..5 : \A isLeft \in BOOLEAN : Raised(generateHandSVG(f, isLeft)) = f
    /\ last.op = "generateHandsForNumber" =>
          /\ last.sel = currentNumber
          /\ currentNumber <= 5 =>
                /\ Len(hands) = 1
                /\ Raised(hands[1]) = currentNumber
          /\ currentNumber >= 6 =>
                /\ Len(hands) = 2
                /\ Raised(hands[1]) = 5
                /\ Raised(hands[2]) = currentNumber - 5
                /\ Raised(hands[1]) + Raised(hands[2]) = currentNumber

\* 7 shows as a hand of 5 and a hand of 2.
C19_Witness ==
    /\ last.op = "generateHandsForNumber"
    /\ currentNumber = 7
    /\ Len(hands) = 2
    /\ Raised(hands[1]) = 5
    /\ Raised(hands[2]) = 2

-----------------------------------------------------------------------------
(* The end of the rejection loop *)

-----------------------------------------------------------------------------
(* The interval and the range of the countdown *)

\* C22: once the first round has started, the interval is live exactly while
\* the round is unresolved: on an unanswered round timerInterval holds the
\* one interval that is running, and on an answered round, whether an answer
\* or the timeout resolved it, timerInterval is null and no interval runs.
C22_IntervalLiveIffUnresolved ==
    handles > 0 =>
        /\ ~answered => (timerInterval # NULL /\ intervals = {timerInterval})
        /\ answered => (timerInterval = NULL /\ intervals = {})

\* The timeout of the second round released its interval.
C22_Witness ==
    /\ last.op = "handleTimeUp"
    /\ handles = 2
    /\ last.timerInterval = 2
    /\ answered
    /\ timerInterval = NULL
    /\ intervals = {}

\* C23: timeLeft stays in 0..15, and in 1..15 while the round is unanswered;
\* so no answer is scored with 0 seconds left, and a correct answer on a
\* streak of s awards between 12 + 5*s and 40 + 5*s points.
C23_TimeLeftInRange ==
    /\ timeLeft \in 0..15
    /\ ~answered => timeLeft \in 1..15
    /\ (last.op = "handleAnswer" /\ ~last.answered) => last.timeLeft \in 1..15
    /\ CorrectAnswer =>
          /\ score - last.score >= 12 + (5 * last.streak)
          /\ score - last.score <= 40 + (5 * last.streak)

\* A correct answer in the last second on a streak of 1 awards 17 points.
C23_Witness ==
    /\ CorrectAnswer
    /\ last.timeLeft = 1
    /\ last.streak = 1
    /\ score = last.score + 17

====
